---------------------------- MODULE Spec2Model ----------------------------
(***************************************************************************)
(* Link-state routing core of the OSPF lab: OSPFRouter (ospf_router.py),   *)
(* its ISIS twin (isis_router.py, same record handling and SPF code) and   *)
(* the OSPFNetwork simulator (ospf_network.py).                            *)
(*                                                                         *)
(* Python dicts keep insertion order and the code depends on it (link      *)
(* order in the self LSA, first matching interface, first minimum in the   *)
(* SPF selection), so ordered dicts are modelled as sequences.  Interface  *)
(* addresses and masks are carried by the code but never read by a branch; *)
(* they are left out.  A routing-table key f"{dest}/32" is represented by  *)
(* dest (the formatting is injective).                                     *)
(***************************************************************************)
EXTENDS Integers, Sequences, FiniteSets, TLC

VARIABLES
    routers,        \* OSPFNetwork.routers: ids of the routers of the network
    links,          \* OSPFNetwork.links: list of <<r1, r2, if1, if2>>
    neighbors,      \* per router: OSPFRouter.neighbors  {id: {state, interface}}
    lsdb,           \* per router: OSPFRouter.lsdb       {origin: LSA}
    routing_table,  \* per router: OSPFRouter.routing_table {dest: Route}
    interfaces,     \* per router: OSPFRouter.interfaces, in insertion order
    last,           \* history: the operation performed by the last step
    seen,           \* history: per router and origin, highest sequence stored or received
    running,        \* per router: OSPFRouter.running
    threads,        \* per router: the live scheduler threads made by start()
    returned,       \* the table handed out by the latest get_routing_table()
    now,            \* time.time(), in seconds
    last_hello      \* per router: the 'last_hello' stamps of its neighbor entries

vars == <<routers, links, neighbors, lsdb, routing_table, interfaces, last, seen,
          running, threads, returned, now, last_hello>>

\* the variables of the schedulers and of the readers
sched == <<running, threads, returned>>

\* the clock and the stamps taken from it
clock == <<now, last_hello>>

-----------------------------------------------------------------------------
(* Identifiers and bounds *)

Nodes == {"A", "B", "C", "D"}

Ifaces == {"eth0", "eth1"}

Costs == {10, 100}

None == "None"

\* highest sequence number of a record handed to receive_lsa
MaxSeq == 2

\* number of connect_routers calls explored in the open network
MaxLinks == 2

\* number of neighbor link entries in one router's LSDB explored by the SPF runs
MaxEdges == 3

Empty == [x \in {} |-> None]

Range(s) == {s[i] : i \in DOMAIN s}

\* the element of a one-element set; Only({F(x) : x \in {e}}) is F(e) with e
\* evaluated once, before F is entered
Only(S) == CHOOSE x \in S : TRUE

-----------------------------------------------------------------------------
(* Records *)

\* dataclass LSA; one entry of lsa.links is a dict
\* {interface, ip, cost [, neighbor_router_id]}
LSA(rid, sq, lks) == [router_id |-> rid, sequence |-> sq, links |-> lks, age |-> 0]

StubLink(ifname, c) == [interface |-> ifname, cost |-> c, neighbor_router_id |-> None]

NbrLink(ifname, c, n) == [interface |-> ifname, cost |-> c, neighbor_router_id |-> n]

\* dataclass Route
Route(nh, c, ifname) == [next_hop |-> nh, cost |-> c, interface |-> ifname]

-----------------------------------------------------------------------------
(* Interface table: a dict in insertion order *)

IfaceNames(ifs) == {ifs[i].name : i \in DOMAIN ifs}

IfaceIndex(ifs, nm) == CHOOSE i \in DOMAIN ifs : ifs[i].name = nm

\* self.interfaces[interface] = {...}: an existing key keeps its position
SetInterface(ifs, nm, c) ==
    LET e == [name |-> nm, cost |-> c, neighbors |-> {}]
    IN  IF nm \in IfaceNames(ifs)
        THEN [ifs EXCEPT ![IfaceIndex(ifs, nm)] = e]
        ELSE Append(ifs, e)

\* OSPFRouter._create_self_lsa: one link per interface, sequence 0
CreateSelfLsa(rid, ifs) ==
    LSA(rid, 0, [i \in DOMAIN ifs |-> StubLink(ifs[i].name, ifs[i].cost)])

\* OSPFRouter._get_interface_to_neighbor: the first interface holding the neighbor
GetInterfaceToNeighbor(ifs, n) ==
    LET hits == {i \in DOMAIN ifs : n \in ifs[i].neighbors}
    IN  IF hits = {} THEN None
        ELSE ifs[CHOOSE i \in hits : \A j \in hits : i <= j].name

-----------------------------------------------------------------------------
(* Shortest-path engine: OSPFRouter.calculate_spf and its helpers *)

Put(f, k, v) == [x \in DOMAIN f \cup {k} |-> IF x = k THEN v ELSE f[x]]

\* a dict after del f[k] for each k of ks
Drop(f, ks) == [k \in DOMAIN f \ ks |-> f[k]]

\* calculate_spf, "Build adjacency graph from LSDB": per origin the list of
\* (neighbor_id, cost) of the links naming a neighbor that is itself in the LSDB
BuildGraph(db) ==
    [o \in DOMAIN db |->
        LET Keep(l) == l.neighbor_router_id # None /\ l.neighbor_router_id \in DOMAIN db
            kept == SelectSeq(db[o].links, Keep)
        IN  [i \in DOMAIN kept |-> [n |-> kept[i].neighbor_router_id, c |-> kept[i].cost]]]

\* faulty variant of RelaxEdges: keeps the first distance found for a vertex and never improves it
RECURSIVE RelaxEdgesFirstWins(_, _, _, _)
RelaxEdgesFirstWins(st, current, edges, i) ==
    IF i > Len(edges) THEN st
    ELSE LET n  == edges[i].n
             nd == st.distances[current] + edges[i].c
             st2 == IF n \in st.unvisited /\ n \notin DOMAIN st.distances
                    THEN [st EXCEPT !.order = Append(@, n),
                                    !.distances = Put(@, n, nd),
                                    !.previous = Put(@, n, current)]
                    ELSE st
         IN  RelaxEdgesFirstWins(st2, current, edges, i + 1)

\* faulty variant of RelaxEdges: relaxes vertices that are finalized already, and
\* on a distance that is no better than the one known
RECURSIVE RelaxEdgesRevisits(_, _, _, _)
RelaxEdgesRevisits(st, current, edges, i) ==
    IF i > Len(edges) THEN st
    ELSE LET n  == edges[i].n
             nd == st.distances[current] + edges[i].c
             st2 == IF n \notin DOMAIN st.distances \/ nd <= st.distances[n]
                    THEN [st EXCEPT
                            !.order = IF n \in DOMAIN st.distances THEN @ ELSE Append(@, n),
                            !.distances = Put(@, n, nd),
                            !.previous = Put(@, n, current)]
                    ELSE st
         IN  RelaxEdgesRevisits(st2, current, edges, i + 1)

\* the inner for loop of calculate_spf over graph[current], from edge i on
RECURSIVE RelaxEdges(_, _, _, _)
RelaxEdges(st, current, edges, i) ==
    IF i > Len(edges) THEN st
    ELSE LET n  == edges[i].n
             nd == st.distances[current] + edges[i].c
             better == n \notin DOMAIN st.distances \/ nd < st.distances[n]
             st2 == IF n \in st.unvisited /\ better
                    THEN [st EXCEPT
                            !.order = IF n \in DOMAIN st.distances THEN @ ELSE Append(@, n),
                            !.distances = Put(@, n, nd),
                            !.previous = Put(@, n, current)]
                    ELSE st
         IN  Only({RelaxEdges(next, current, edges, i + 1) : next \in {st2}})

\* min(candidates, key=candidates.get): the first key, in the insertion order of
\* distances, among the unvisited keys of least distance
SelectCurrent(st) ==
    LET cand == {i \in DOMAIN st.order : st.order[i] \in st.unvisited}
        best == {i \in cand : \A j \in cand :
                    st.distances[st.order[i]] <= st.distances[st.order[j]]}
    IN  st.order[CHOOSE i \in best : \A j \in best : i <= j]

\* the while loop of calculate_spf
RECURSIVE SpfLoop(_, _)
SpfLoop(st, graph) ==
    IF st.unvisited = {} \/ \A i \in DOMAIN st.order : st.order[i] \notin st.unvisited
    THEN st
    ELSE LET current == SelectCurrent(st)
             st1 == [st EXCEPT !.unvisited = @ \ {current}]
         IN  Only({SpfLoop(next, graph) :
                      next \in {IF current \in DOMAIN graph
                                THEN RelaxEdges(st1, current, graph[current], 1)
                                ELSE st1}})

\* distances / previous as calculate_spf hands them to _build_routing_table
Dijkstra(self, db) ==
    SpfLoop([distances |-> (self :> 0), order |-> <<self>>,
             previous |-> Empty, unvisited |-> DOMAIN db],
            BuildGraph(db))

\* the while loop of _find_next_hop: dest, previous[dest], ... while in previous
RECURSIVE BackPath(_, _)
BackPath(current, previous) ==
    IF current \in DOMAIN previous
    THEN <<current>> \o BackPath(previous[current], previous)
    ELSE << >>

\* faulty variant of FindNextHop: returns the immediate predecessor of the destination
FindNextHopPredecessor(self, dest, previous) ==
    IF dest \notin DOMAIN previous THEN None ELSE previous[dest]

\* OSPFRouter._find_next_hop: path[-2] of the backwards path with self appended
FindNextHop(self, dest, previous) ==
    IF dest \notin DOMAIN previous THEN None
    ELSE LET path == Append(BackPath(dest, previous), self)
         IN  IF Len(path) >= 2 THEN path[Len(path) - 1] ELSE None

\* faulty variant of BuildRoutingTable: emits a route without asking whether the next hop is a neighbor
BuildRoutingTableNoNeighborTest(self, nbrs, ifs, st) ==
    LET dests == {d \in DOMAIN st.distances \ {self} :
                    LET nh == FindNextHop(self, d, st.previous)
                    IN  nh # None /\ GetInterfaceToNeighbor(ifs, nh) # None}
    IN  [d \in dests |->
            LET nh == FindNextHop(self, d, st.previous)
            IN  Route(nh, st.distances[d], GetInterfaceToNeighbor(ifs, nh))]

\* faulty variant of BuildRoutingTable: the router's own id is not skipped and
\* gets a local route
BuildRoutingTableWithSelf(self, nbrs, ifs, st) ==
    LET dests == {d \in DOMAIN st.distances :
                    \/ d = self
                    \/ LET nh == FindNextHop(self, d, st.previous)
                       IN  /\ nh # None
                           /\ nh \in DOMAIN nbrs
                           /\ GetInterfaceToNeighbor(ifs, nh) # None}
    IN  [d \in dests |->
            IF d = self THEN Route(self, st.distances[d], None)
            ELSE LET nh == FindNextHop(self, d, st.previous)
                 IN  Route(nh, st.distances[d], GetInterfaceToNeighbor(ifs, nh))]

\* OSPFRouter._build_routing_table: a fresh table with one route per reached
\* destination whose next hop is a neighbor reachable through an interface
BuildRoutingTable(self, nbrs, ifs, st) ==
    LET dests == {d \in DOMAIN st.distances \ {self} :
                    LET nh == FindNextHop(self, d, st.previous)
                    IN  /\ nh # None
                        /\ nh \in DOMAIN nbrs
                        /\ GetInterfaceToNeighbor(ifs, nh) # None}
    IN  [d \in dests |->
            LET nh == FindNextHop(self, d, st.previous)
            IN  Route(nh, st.distances[d], GetInterfaceToNeighbor(ifs, nh))]

\* faulty variant of SpfTable: the new routes are patched into the old table
SpfTablePatched(self, db, nbrs, ifs, old) ==
    IF Cardinality(DOMAIN db) < 2 THEN old
    ELSE LET new == BuildRoutingTable(self, nbrs, ifs, Dijkstra(self, db))
         IN  [d \in DOMAIN old \cup DOMAIN new |->
                 IF d \in DOMAIN new THEN new[d] ELSE old[d]]

\* OSPFRouter.calculate_spf: the new routing table (the old one with fewer
\* than two LSDB entries)
SpfTable(self, db, nbrs, ifs, old) ==
    IF Cardinality(DOMAIN db) < 2 THEN old
    ELSE BuildRoutingTable(self, nbrs, ifs, Dijkstra(self, db))

-----------------------------------------------------------------------------
(* Link-state database and flooding *)

\* faulty variant of Accepts: also accepts a record whose sequence equals the stored one
AcceptsOrEqual(db, lsa) ==
    \/ lsa.router_id \notin DOMAIN db
    \/ lsa.sequence >= db[lsa.router_id].sequence

\* the two accepting branches of OSPFRouter._receive_lsa
Accepts(db, lsa) ==
    \/ lsa.router_id \notin DOMAIN db
    \/ lsa.sequence > db[lsa.router_id].sequence

\* faulty variant of ReceiveLsaDb: stores every record it is handed
ReceiveLsaDbAlways(db, lsa) == Put(db, lsa.router_id, lsa)

\* OSPFRouter._receive_lsa: the LSDB after processing lsa
ReceiveLsaDb(db, lsa) ==
    IF Accepts(db, lsa) THEN Put(db, lsa.router_id, lsa) ELSE db

\* OSPFRouter._flood_lsa: the neighbors the loop selects ...
FloodTargets(nbrs, except_router) ==
    {n \in DOMAIN nbrs : n # except_router /\ nbrs[n].state = "FULL"}

\* ... and the records it hands to them: the loop body is "pass"
FloodDeliveries(nbrs, lsa, except_router) ==
    {}

\* OSPFRouter._send_lsas: every record of the own LSDB goes through the own
\* _receive_lsa (todo lists the origins not yet visited by the for loop)
RECURSIVE SendLsas(_, _, _)
SendLsas(db, src, todo) ==
    IF todo = {} THEN db
    ELSE LET o == CHOOSE x \in todo : TRUE
         IN  SendLsas(ReceiveLsaDb(db, src[o]), src, todo \ {o})

-----------------------------------------------------------------------------
(* One router: rs = [neighbors, lsdb, interfaces] *)

\* OSPFRouter.__init__
NewRouter(self) ==
    [neighbors |-> Empty, lsdb |-> (self :> CreateSelfLsa(self, << >>)), interfaces |-> << >>]


\* OSPFRouter.add_interface
AddInterfaceRS(rs, self, nm, c) ==
    LET ifs == SetInterface(rs.interfaces, nm, c)
    IN  [rs EXCEPT !.interfaces = ifs, !.lsdb = Put(@, self, CreateSelfLsa(self, ifs))]

\* OSPFRouter._exchange_lsas: 2-WAY -> EXSTART, _send_lsas, -> EXCHANGE -> FULL
ExchangeLsas(rs, n) ==
    IF rs.neighbors[n].state = "2-WAY"
    THEN [rs EXCEPT !.lsdb = SendLsas(@, @, DOMAIN @),
                    !.neighbors[n].state = "FULL"]
    ELSE rs

\* faulty variant of ReceiveHelloRS: an INIT peer goes to 2-WAY and stays there
ReceiveHelloRSTwoWay(rs, n, ifname) ==
    LET rs1 == IF n \notin DOMAIN rs.neighbors
               THEN [rs EXCEPT !.neighbors = Put(@, n, [state |-> "INIT", interface |-> ifname])]
               ELSE rs
    IN  IF rs1.neighbors[n].state = "INIT"
        THEN [rs1 EXCEPT !.neighbors[n].state = "2-WAY"]
        ELSE rs1

\* OSPFRouter._exchange_lsas: the states it assigns to a neighbor found in state
ExchangeStates(state) ==
    IF state = "2-WAY" THEN <<"EXSTART", "EXCHANGE", "FULL">> ELSE << >>

\* OSPFRouter.receive_hello: the states it assigns to neighbor n, in order
HelloStates(nbrs, n) ==
    LET created == IF n \notin DOMAIN nbrs THEN <<"INIT">> ELSE << >>
        state   == IF n \notin DOMAIN nbrs THEN "INIT" ELSE nbrs[n].state
    IN  IF state = "INIT"
        THEN created \o <<"2-WAY">> \o ExchangeStates("2-WAY")
        ELSE created

\* what a hello handler does to one neighbor, in the order of its statements:
\* Assign(s) is an assignment of state s to the neighbor's entry, Inject(os) the
\* loop of _send_lsas handing the records of origins os to _receive_lsa
Assign(s) == [kind |-> "state", state |-> s, origins |-> {}]

Inject(os) == [kind |-> "send", state |-> None, origins |-> os]

\* the state of the neighbor's entry when statement k of events runs, the
\* entry being in state before (None: no entry) when the handler starts
RECURSIVE StateAt(_, _, _)
StateAt(events, k, before) ==
    IF k = 1 THEN before
    ELSE IF events[k - 1].kind = "state" THEN events[k - 1].state
    ELSE StateAt(events, k - 1, before)

\* OSPFRouter._exchange_lsas on a neighbor found in state, with LSDB db
ExchangeEvents(state, db) ==
    IF state = "2-WAY"
    THEN <<Assign("EXSTART"), Inject(DOMAIN db), Assign("EXCHANGE"), Assign("FULL")>>
    ELSE << >>

\* OSPFRouter.receive_hello(n, ...) on a router with neighbors nbrs, LSDB db
HelloEvents(nbrs, n, db) ==
    LET created == IF n \notin DOMAIN nbrs THEN <<Assign("INIT")>> ELSE << >>
        state   == IF n \notin DOMAIN nbrs THEN "INIT" ELSE nbrs[n].state
    IN  IF state = "INIT"
        THEN created \o <<Assign("2-WAY")>> \o ExchangeEvents("2-WAY", db)
        ELSE created

\* OSPFRouter.receive_hello
ReceiveHelloRS(rs, n, ifname) ==
    LET rs1 == IF n \notin DOMAIN rs.neighbors
               THEN [rs EXCEPT !.neighbors = Put(@, n, [state |-> "INIT", interface |-> ifname])]
               ELSE rs
    IN  IF rs1.neighbors[n].state = "INIT"
        THEN ExchangeLsas([rs1 EXCEPT !.neighbors[n].state = "2-WAY"], n)
        ELSE rs1

\* OSPFNetwork.connect_routers, as far as it concerns one of the two routers
ConnectSide(rs, self, peer, ifname, c) ==
    LET rs1 == AddInterfaceRS(rs, self, ifname, c)
        rs2 == [rs1 EXCEPT !.lsdb[self].links = Append(@, NbrLink(ifname, c, peer))]
        rs3 == [rs2 EXCEPT !.neighbors = Put(@, peer, [state |-> "INIT", interface |-> ifname]),
                           !.interfaces[IfaceIndex(rs2.interfaces, ifname)].neighbors = @ \cup {peer}]
    IN  ReceiveHelloRS(rs3, peer, ifname)

\* faulty variant of FailSide: the neighbor entry goes, the interfaces keep the peer
FailSideKeepsMembership(rs, peer) ==
    LET nbrs == rs.neighbors
    IN  [rs EXCEPT !.neighbors = [n \in DOMAIN nbrs \ {peer} |-> nbrs[n]]]

\* OSPFNetwork.simulate_link_failure, as far as it concerns one of the two routers
FailSide(rs, peer) ==
    LET nbrs == rs.neighbors
        ifs  == rs.interfaces
    IN  [rs EXCEPT !.neighbors = [n \in DOMAIN nbrs \ {peer} |-> nbrs[n]],
                   !.interfaces = [i \in DOMAIN ifs |->
                                      [ifs[i] EXCEPT !.neighbors = @ \ {peer}]]]

-----------------------------------------------------------------------------
(* The network: state after OSPFNetwork() and add_router for each id of rs *)

RS(r) == [neighbors |-> neighbors[r], lsdb |-> lsdb[r], interfaces |-> interfaces[r]]

Max(a, b) == IF a >= b THEN a ELSE b

\* history: the sequence numbers of db become known to router r
Observe(sn, r, db) ==
    [sn EXCEPT ![r] = [o \in Nodes |->
        IF o \in DOMAIN db THEN Max(@[o], db[o].sequence) ELSE @[o]]]

Op(name, r, flooded) == [op |-> name, router |-> r, flooded |-> flooded]

InitNetwork(rs) ==
    /\ routers = rs
    /\ links = << >>
    /\ neighbors = [r \in rs |-> NewRouter(r).neighbors]
    /\ lsdb = [r \in rs |-> NewRouter(r).lsdb]
    /\ interfaces = [r \in rs |-> NewRouter(r).interfaces]
    /\ routing_table = [r \in rs |-> Empty]
    /\ last = Op("init", None, FALSE)
    /\ seen = [r \in rs |-> [o \in Nodes |-> IF o = r THEN 0 ELSE -1]]
    /\ running = [r \in rs |-> FALSE]
    /\ threads = [r \in rs |-> << >>]
    /\ returned = Empty
    /\ now = 0
    /\ last_hello = [r \in rs |-> Empty]

\* OSPFRouter.add_interface(nm, cost=c) on router r
AddInterface(r, nm, c) ==
    LET rs2 == AddInterfaceRS(RS(r), r, nm, c)
    IN  /\ interfaces' = [interfaces EXCEPT ![r] = rs2.interfaces]
        /\ lsdb' = [lsdb EXCEPT ![r] = rs2.lsdb]
        /\ seen' = Observe(seen, r, rs2.lsdb)
        /\ last' = Op("add_interface", r, FALSE)
        /\ UNCHANGED sched
        /\ UNCHANGED clock
        /\ UNCHANGED <<routers, links, neighbors, routing_table>>

\* OSPFRouter.receive_hello(n, ifname) on router r
ReceiveHello(r, n, ifname) ==
    LET rs2 == ReceiveHelloRS(RS(r), n, ifname)
    IN  /\ neighbors' = [neighbors EXCEPT ![r] = rs2.neighbors]
        /\ lsdb' = [lsdb EXCEPT ![r] = rs2.lsdb]
        /\ seen' = Observe(seen, r, rs2.lsdb)
        /\ last' = Op("receive_hello", r, FALSE)
        /\ UNCHANGED sched
        /\ last_hello' = [last_hello EXCEPT ![r] = Put(@, n, now)]
        /\ UNCHANGED now
        /\ UNCHANGED <<routers, links, interfaces, routing_table>>

\* OSPFRouter.receive_lsa(lsa, from_router) on router r
ReceiveLsa(r, lsa, from_router) ==
    /\ LET flooded == IF Accepts(lsdb[r], lsa)
                      THEN FloodDeliveries(neighbors[r], lsa, from_router)
                      ELSE {}
       IN  lsdb' = [x \in routers |->
                      IF x = r THEN ReceiveLsaDb(lsdb[r], lsa)
                      ELSE IF <<x, lsa>> \in flooded THEN ReceiveLsaDb(lsdb[x], lsa)
                      ELSE lsdb[x]]
    /\ seen' = [seen EXCEPT ![r][lsa.router_id] = Max(@, lsa.sequence)]
    /\ last' = Op("receive_lsa", r, Accepts(lsdb[r], lsa))
    /\ UNCHANGED sched
    /\ UNCHANGED clock
    /\ UNCHANGED <<routers, links, neighbors, interfaces, routing_table>>

\* OSPFRouter.calculate_spf() on router r
CalculateSpf(r) ==
    /\ routing_table' = [routing_table EXCEPT
                            ![r] = SpfTable(r, lsdb[r], neighbors[r], interfaces[r], @)]
    /\ last' = Op("calculate_spf", r, FALSE)
    /\ UNCHANGED sched
    /\ UNCHANGED clock
    /\ UNCHANGED <<routers, links, neighbors, lsdb, interfaces, seen>>

\* OSPFNetwork.connect_routers(r1, r2, if1, if2, cost=c), both routers known
ConnectRouters(r1, r2, if1, if2, c) ==
    /\ r1 \in routers /\ r2 \in routers /\ r1 # r2
    /\ LET s1 == ConnectSide(RS(r1), r1, r2, if1, c)
           s2 == ConnectSide(RS(r2), r2, r1, if2, c)
           new(f, a, b) == [f EXCEPT ![r1] = a, ![r2] = b]
       IN  /\ neighbors' = new(neighbors, s1.neighbors, s2.neighbors)
           /\ lsdb' = new(lsdb, s1.lsdb, s2.lsdb)
           /\ interfaces' = new(interfaces, s1.interfaces, s2.interfaces)
           /\ seen' = Observe(Observe(seen, r1, s1.lsdb), r2, s2.lsdb)
    /\ links' = Append(links, <<r1, r2, if1, if2>>)
    /\ last' = Op("connect_routers", r1, FALSE)
    /\ UNCHANGED sched
    /\ last_hello' = [last_hello EXCEPT ![r1] = Put(@, r2, now), ![r2] = Put(@, r1, now)]
    /\ UNCHANGED now
    /\ UNCHANGED <<routers, routing_table>>

\* faulty variant of ConnectUnknown: the ids are tested after the first
\* add_interface, so the error leaves an interface behind on a known r1
ConnectUnknownLate(r1, r2) ==
    /\ r1 \notin routers \/ r2 \notin routers
    /\ IF r1 \in routers
       THEN LET rs2 == AddInterfaceRS(RS(r1), r1, "eth0", 10)
            IN  /\ interfaces' = [interfaces EXCEPT ![r1] = rs2.interfaces]
                /\ lsdb' = [lsdb EXCEPT ![r1] = rs2.lsdb]
                /\ seen' = Observe(seen, r1, rs2.lsdb)
       ELSE UNCHANGED <<interfaces, lsdb, seen>>
    /\ last' = Op("connect_error", None, FALSE)
    /\ UNCHANGED sched
    /\ UNCHANGED clock
    /\ UNCHANGED <<routers, links, neighbors, routing_table>>

\* OSPFNetwork.connect_routers with an id that is not in the network: ValueError
ConnectUnknown(r1, r2) ==
    /\ r1 \notin routers \/ r2 \notin routers
    /\ last' = Op("connect_error", None, FALSE)
    /\ UNCHANGED sched
    /\ UNCHANGED clock
    /\ UNCHANGED <<routers, links, neighbors, lsdb, interfaces, routing_table, seen>>

\* OSPFNetwork.simulate_link_failure(r1, r2), both routers known
SimulateLinkFailure(r1, r2) ==
    /\ r1 \in routers /\ r2 \in routers /\ r1 # r2
    /\ LET s1 == FailSide(RS(r1), r2)
           s2 == FailSide(RS(r2), r1)
       IN  /\ neighbors' = [neighbors EXCEPT ![r1] = s1.neighbors, ![r2] = s2.neighbors]
           /\ interfaces' = [interfaces EXCEPT ![r1] = s1.interfaces, ![r2] = s2.interfaces]
    /\ last' = Op("simulate_link_failure", r1, FALSE)
    /\ UNCHANGED sched
    /\ last_hello' = [last_hello EXCEPT ![r1] = Drop(@, {r2}), ![r2] = Drop(@, {r1})]
    /\ UNCHANGED now
    /\ UNCHANGED <<routers, links, lsdb, routing_table, seen>>

\* one pass of OSPFRouter._hello_loop on router r: the neighbors whose last
\* hello is older than dead_interval are deleted.  Timestamps are not kept:
\* dead is the set of neighbors that have been silent for that long
HelloLoopExpire(r, dead) ==
    /\ dead # {} /\ dead \subseteq DOMAIN neighbors[r]
    /\ neighbors' = [neighbors EXCEPT ![r] = [n \in DOMAIN @ \ dead |-> @[n]]]
    /\ last' = Op("hello_loop", r, FALSE)
    /\ UNCHANGED sched
    /\ last_hello' = [last_hello EXCEPT ![r] = Drop(@, dead)]
    /\ UNCHANGED now
    /\ UNCHANGED <<routers, links, lsdb, interfaces, routing_table, seen>>

-----------------------------------------------------------------------------
(* The schedulers of a router: start() makes two daemon threads, one       *)
(* running _hello_loop and one running _spf_loop.  Neither the loops nor   *)
(* the operations called from outside take a lock, so a thread is modelled *)
(* by its position (pc) and every read or write of a shared table is a     *)
(* step of its own.  pc is "loop" at the while test; in _hello_loop "scan" *)
(* in front of the for loop, "test" at the if of the for loop and "del" in *)
(* front of the del statement, with todo the listed neighbors still to     *)
(* visit, time the current_time read and stamps the stamps of the listed   *)
(* entries; in _spf_loop "sleep" in time.sleep(30) and "build" inside      *)
(* _build_routing_table, with todo the destinations the for loop has still *)
(* to visit and st the distances and predecessors it was called with.      *)
(* old is history: the table calculate_spf found.                          *)

NoSt == [distances |-> Empty, order |-> << >>, previous |-> Empty, unvisited |-> {}]

Thread(kind, pc) ==
    [kind |-> kind, pc |-> pc, todo |-> << >>, st |-> NoSt, old |-> Empty,
     time |-> 0, stamps |-> Empty, graph |-> Empty, path |-> << >>]

\* a sequence without its i-th element
Remove(seq, i) == [j \in 1..(Len(seq) - 1) |-> IF j < i THEN seq[j] ELSE seq[j + 1]]

\* faulty variant of LoopCondition: the loop never looks at the flag
LoopConditionAlways(run) == TRUE

\* the test of "while self.running:" in _hello_loop and _spf_loop
LoopCondition(run) == run

\* one iteration of the for loop of _build_routing_table: table with the
\* route to dest added, if there is one
BuildEntry(self, nbrs, ifs, st, dest, table) ==
    IF dest = self THEN table
    ELSE LET nh == FindNextHop(self, dest, st.previous)
         IN  IF nh # None /\ nh \in DOMAIN nbrs /\ GetInterfaceToNeighbor(ifs, nh) # None
             THEN Put(table, dest, Route(nh, st.distances[dest],
                                         GetInterfaceToNeighbor(ifs, nh)))
             ELSE table

\* OSPFRouter.start on a router none of whose scheduler threads is alive
Start(r) ==
    /\ threads[r] = << >>
    /\ running' = [running EXCEPT ![r] = TRUE]
    /\ threads' = [threads EXCEPT ![r] = <<Thread("hello", "loop"), Thread("spf", "loop")>>]
    /\ last' = Op("start", r, FALSE)
    /\ UNCHANGED clock
    /\ UNCHANGED <<routers, links, neighbors, lsdb, routing_table, interfaces, seen, returned>>

\* OSPFRouter.stop
Stop(r) ==
    /\ running' = [running EXCEPT ![r] = FALSE]
    /\ last' = Op("stop", r, FALSE)
    /\ UNCHANGED clock
    /\ UNCHANGED <<routers, links, neighbors, lsdb, routing_table, interfaces, seen,
                   threads, returned>>

\* OSPFRouter.get_routing_table: a copy of the table as it is now
GetRoutingTable(r) ==
    /\ returned' = routing_table[r]
    /\ last' = Op("get_routing_table", r, FALSE)
    /\ UNCHANGED clock
    /\ UNCHANGED <<routers, links, neighbors, lsdb, routing_table, interfaces, seen,
                   running, threads>>

\* the while test of either loop, by thread i of router r: the thread goes on
\* into the loop body or returns from its target and is gone
ThreadWhile(r, i) ==
    /\ i \in DOMAIN threads[r]
    /\ threads[r][i].pc = "loop"
    /\ threads' = [threads EXCEPT ![r] =
                      IF LoopCondition(running[r])
                      THEN [@ EXCEPT ![i].pc = IF threads[r][i].kind = "hello"
                                                    THEN "scan" ELSE "sleep"]
                      ELSE Remove(@, i)]
    /\ last' = Op(IF threads[r][i].kind = "hello" THEN "hello_while" ELSE "spf_while",
                  r, FALSE)
    /\ UNCHANGED clock
    /\ UNCHANGED <<routers, links, neighbors, lsdb, routing_table, interfaces, seen,
                   running, returned>>

\* OSPFRouter.__init__: the timers, in seconds
hello_interval == 10

dead_interval == 40

\* time passes: time.time() is later by the length of one hello interval
Tick(limit) ==
    /\ now + hello_interval <= limit
    /\ now' = now + hello_interval
    /\ last' = Op("tick", None, FALSE)
    /\ UNCHANGED <<routers, links, neighbors, lsdb, routing_table, interfaces, seen,
                   running, threads, returned, last_hello>>

\* the orders in which a dict with the keys of S can be listed
Orders(S) ==
    {q \in [1..Cardinality(S) -> S] : \A a, b \in DOMAIN q : a # b => q[a] # q[b]}

\* the test of _hello_loop on a neighbor whose last hello bears stamp
Expired(current_time, stamp, hold) == current_time - stamp > hold

\* _hello_loop up to the head of its for loop: current_time is read and the
\* neighbor entries are listed, each a reference to the entry's dict
HelloThreadSnapshot(r, i, order) ==
    /\ i \in DOMAIN threads[r]
    /\ threads[r][i].kind = "hello" /\ threads[r][i].pc = "scan"
    /\ order \in Orders(DOMAIN neighbors[r])
    /\ threads' = [threads EXCEPT ![r][i] =
                      [@ EXCEPT !.pc = "test", !.todo = order, !.time = now,
                                !.stamps = last_hello[r]]]
    /\ last' = Op("hello_loop", r, FALSE)
    /\ UNCHANGED clock
    /\ UNCHANGED <<routers, links, neighbors, lsdb, routing_table, interfaces, seen,
                   running, returned>>

\* the stamp the for loop reads through its reference to the entry of n: the
\* entry's stamp of now while the entry is in the table, else the one it had
HelloStamp(r, i, n) ==
    IF n \in DOMAIN last_hello[r] THEN last_hello[r][n] ELSE threads[r][i].stamps[n]

\* the if of the for loop on the next listed neighbor, with outcome expired;
\* at the end of the list the thread sleeps hello_interval
HelloThreadTest(r, i, expired) ==
    /\ i \in DOMAIN threads[r]
    /\ threads[r][i].kind = "hello" /\ threads[r][i].pc = "test"
    /\ threads' = [threads EXCEPT ![r][i] =
                      IF @.todo = << >> THEN Thread("hello", "loop")
                      ELSE IF expired THEN [@ EXCEPT !.pc = "del"]
                      ELSE [@ EXCEPT !.todo = Tail(@)]]
    /\ last' = Op("hello_loop", r, FALSE)
    /\ UNCHANGED clock
    /\ UNCHANGED <<routers, links, neighbors, lsdb, routing_table, interfaces, seen,
                   running, returned>>

\* del self.neighbors[neighbor_id] in the for loop: the entry goes, or it is
\* gone already and the KeyError ends the thread
HelloThreadDel(r, i) ==
    /\ i \in DOMAIN threads[r]
    /\ threads[r][i].kind = "hello" /\ threads[r][i].pc = "del"
    /\ LET n == Head(threads[r][i].todo)
       IN  IF n \in DOMAIN neighbors[r]
           THEN /\ neighbors' = [neighbors EXCEPT ![r] = Drop(@, {n})]
                /\ last_hello' = [last_hello EXCEPT ![r] = Drop(@, {n})]
                /\ threads' = [threads EXCEPT ![r][i] =
                                  [@ EXCEPT !.pc = "test", !.todo = Tail(@)]]
                /\ last' = Op("hello_loop", r, FALSE)
           ELSE /\ threads' = [threads EXCEPT ![r] = Remove(@, i)]
                /\ last' = Op("hello_error", r, FALSE)
                /\ UNCHANGED <<neighbors, last_hello>>
    /\ UNCHANGED now
    /\ UNCHANGED <<routers, links, lsdb, routing_table, interfaces, seen, running, returned>>

\* _spf_loop after time.sleep(30): with more than one LSDB entry calculate_spf
\* runs up to the first line of _build_routing_table, which empties the table
SpfThreadWake(r, i) ==
    /\ i \in DOMAIN threads[r]
    /\ threads[r][i].kind = "spf" /\ threads[r][i].pc = "sleep"
    /\ IF Cardinality(DOMAIN lsdb[r]) > 1
       THEN LET st == Dijkstra(r, lsdb[r])
            IN  /\ threads' = [threads EXCEPT ![r][i] =
                                  [Thread("spf", "build") EXCEPT
                                      !.todo = st.order, !.st = st,
                                      !.old = routing_table[r]]]
                /\ routing_table' = [routing_table EXCEPT ![r] = Empty]
       ELSE /\ threads' = [threads EXCEPT ![r][i].pc = "loop"]
            /\ UNCHANGED routing_table
    /\ last' = Op("spf_loop", r, FALSE)
    /\ UNCHANGED clock
    /\ UNCHANGED <<routers, links, neighbors, lsdb, interfaces, seen, running, returned>>

\* one iteration of the for loop of _build_routing_table in the SPF thread, or
\* its end, which is the end of calculate_spf
SpfThreadBuild(r, i) ==
    /\ i \in DOMAIN threads[r]
    /\ threads[r][i].kind = "spf" /\ threads[r][i].pc = "build"
    /\ LET th == threads[r][i]
       IN  IF th.todo = << >>
           THEN /\ threads' = [threads EXCEPT ![r][i] = Thread("spf", "loop")]
                /\ UNCHANGED routing_table
           ELSE /\ threads' = [threads EXCEPT ![r][i].todo = Tail(@)]
                /\ routing_table' = [routing_table EXCEPT ![r] =
                                        BuildEntry(r, neighbors[r], interfaces[r], th.st,
                                                   Head(th.todo), @)]
    /\ last' = Op("spf_loop", r, FALSE)
    /\ UNCHANGED clock
    /\ UNCHANGED <<routers, links, neighbors, lsdb, interfaces, seen, running, returned>>

\* a step of the hello thread of router r
HelloThreadStep(r) ==
    \E i \in DOMAIN threads[r] :
        /\ threads[r][i].kind = "hello"
        /\ \/ ThreadWhile(r, i)
           \/ \E order \in Orders(DOMAIN neighbors[r]) : HelloThreadSnapshot(r, i, order)
           \/ \E expired \in BOOLEAN : HelloThreadTest(r, i, expired)
           \/ HelloThreadDel(r, i)

\* a step of the hello thread of router r, the outcome of its test computed
\* from the clock and the stamps
TimedHelloThreadStep(r) ==
    \E i \in DOMAIN threads[r] :
        /\ threads[r][i].kind = "hello"
        /\ \/ ThreadWhile(r, i)
           \/ \E order \in Orders(DOMAIN neighbors[r]) : HelloThreadSnapshot(r, i, order)
           \/ HelloThreadTest(r, i,
                  /\ threads[r][i].todo # << >>
                  /\ Expired(threads[r][i].time,
                             HelloStamp(r, i, Head(threads[r][i].todo)), dead_interval))
           \/ HelloThreadDel(r, i)

\* a step of the SPF thread of router r
SpfThreadStep(r) ==
    \E i \in DOMAIN threads[r] :
        /\ threads[r][i].kind = "spf"
        /\ \/ ThreadWhile(r, i)
           \/ SpfThreadWake(r, i)
           \/ SpfThreadBuild(r, i)

-----------------------------------------------------------------------------
(* SpecSpf: router A of a two-router network is brought into an arbitrary  *)
(* state, then calculate_spf runs on it.  C says hello (a neighbor on no   *)
(* interface), A is paired with B (a neighbor on eth0, which may then fall *)
(* silent and be removed by the hello loop), D stays unknown,              *)
(* and A receives records with arbitrary link lists: its own first, then   *)
(* those of B, C and D.  Links into A are left out (A is finalized first,  *)
(* they are never relaxed).                                                *)

SpfCosts == {10, 20, 30}

\* the neighbor links a record of origin o may carry
LinkEntries(o) == {NbrLink("eth0", c, n) : n \in Nodes \ {o, "A"}, c \in SpfCosts}

NbrLinkCount(lsa) ==
    Cardinality({i \in DOMAIN lsa.links : lsa.links[i].neighbor_router_id # None})

RECURSIVE EdgeCount(_, _)
EdgeCount(db, todo) ==
    IF todo = {} THEN 0
    ELSE LET o == CHOOSE x \in todo : TRUE
         IN  NbrLinkCount(db[o]) + EdgeCount(db, todo \ {o})

NodeOrder == <<"A", "B", "C", "D">>

Rank(o) == CHOOSE i \in DOMAIN NodeOrder : NodeOrder[i] = o

\* the origins of the records router A may be handed next
SpfOrigins(db) ==
    IF DOMAIN db = {"A"} /\ db["A"].sequence = 0 THEN Nodes
    ELSE {o \in Nodes \ {"A"} : \A x \in DOMAIN db \ {"A"} : Rank(x) < Rank(o)}

\* the number of links such a record may carry
SpfRoom(db, o) ==
    IF o = "A" THEN MaxEdges ELSE MaxEdges - EdgeCount(db, DOMAIN db)

SpfDone == last.op = "calculate_spf"

InitSpf == InitNetwork({"A", "B"})

NextSpf ==
    \/ /\ last.op = "init"
       /\ ReceiveHello("A", "C", "eth1")
    \/ /\ last.op = "receive_hello"
       /\ ConnectRouters("A", "B", "eth0", "eth0", 10)
    \/ /\ last.op = "connect_routers"
       /\ HelloLoopExpire("A", {"B"})
    \/ /\ last.op \in {"connect_routers", "hello_loop", "receive_lsa"}
       /\ \E o \in SpfOrigins(lsdb["A"]) :
            \E n \in 0..SpfRoom(lsdb["A"], o) :
                \E l \in [1..n -> LinkEntries(o)] :
                    ReceiveLsa("A", LSA(o, 1, l), "B")
    \/ /\ last.op \notin {"init", "receive_hello"}
       /\ CalculateSpf("A")

SpecSpf == InitSpf /\ [][NextSpf]_vars

-----------------------------------------------------------------------------
(* Spec: the network of combined_demo.py.  Routers A, B and C are paired   *)
(* along the line A-B-C, in any order and possibly again; at any time a    *)
(* router hands a record of a neighbor's LSDB to its own receive_lsa (the  *)
(* demo's exchange loop), a link fails, or a router runs calculate_spf.    *)
(* D is an id that is not a router of the network.                         *)

\* combined_demo.py, lines 28-29: the connect_routers calls of the line
Topology ==
    { <<"A", "B", "eth0", "eth0", 10>>,
      <<"B", "C", "eth1", "eth0", 10>> }

Init == InitNetwork({"A", "B", "C"})

\* combined_demo.py, lines 35-40: router r receives origin o's record from
\* the LSDB of its neighbor n
Exchange(r, n, o) ==
    /\ n \in DOMAIN neighbors[r] \cap routers
    /\ o \in DOMAIN lsdb[n]
    /\ ReceiveLsa(r, lsdb[n][o], n)

Next ==
    \/ \E t \in Topology :
          /\ Len(links) < MaxLinks
          /\ ConnectRouters(t[1], t[2], t[3], t[4], t[5])
    \/ \E r \in routers : ConnectUnknown(r, "D")
    \/ \E t \in Range(links) : SimulateLinkFailure(t[1], t[2])
    \/ \E r \in routers, n \in routers, o \in Nodes : Exchange(r, n, o)
    \/ \E r \in routers : CalculateSpf(r)

Spec == Init /\ [][Next]_vars

-----------------------------------------------------------------------------
(* SpecLsdb: one router, A, driven from outside: interfaces are added, B   *)
(* says hello, and records of origin A or B with any sequence number up to *)
(* MaxSeq, with or without a link, arrive from B or C.                     *)

LsdbLinks == {<< >>, <<NbrLink("eth0", 10, "D")>>}

LsdbLsas == {LSA(o, sq, l) : o \in {"A", "B"}, sq \in 0..MaxSeq, l \in LsdbLinks}

InitLsdb == InitNetwork({"A"})

NextLsdb ==
    \/ \E lsa \in LsdbLsas, from \in {"B", "C"} : ReceiveLsa("A", lsa, from)
    \/ \E nm \in Ifaces, c \in Costs : AddInterface("A", nm, c)
    \/ \E nm \in Ifaces : ReceiveHello("A", "B", nm)

SpecLsdb == InitLsdb /\ [][NextLsdb]_vars

-----------------------------------------------------------------------------
(* ISISRouter (isis_router.py).  It keeps the same four tables as          *)
(* OSPFRouter, held in the same variables; a neighbor entry also records   *)
(* the level of the hello that created it, a record (LSP) the level of its *)
(* origin.  The level of a router is fixed by its constructor.             *)

Levels == {"L1", "L2", "L1L2"}

\* ISISRouter.level of the ISIS routers of the model
IsisLevel == ("A" :> "L1") @@ ("B" :> "L2") @@ ("C" :> "L1L2")

LSP(sid, sq, lks, lvl) ==
    [system_id |-> sid, sequence |-> sq, links |-> lks, age |-> 0, level |-> lvl]

\* ISISRouter._create_self_lsp: one link per interface, in interface order
CreateSelfLsp(sid, ifs, lvl) ==
    LSP(sid, 0, [i \in DOMAIN ifs |-> [interface |-> ifs[i].name, cost |-> ifs[i].cost]], lvl)

\* faulty variant of LevelsCompatible: every pair of levels is compatible
LevelsCompatibleAlways(level1, level2) == TRUE

\* ISISRouter._levels_compatible
LevelsCompatible(level1, level2) ==
    IF level1 = "L1L2" \/ level2 = "L1L2" THEN TRUE ELSE level1 = level2

\* the two accepting branches of ISISRouter._receive_lsp
IsisAccepts(db, lsp) ==
    \/ lsp.system_id \notin DOMAIN db
    \/ lsp.sequence > db[lsp.system_id].sequence

\* ISISRouter._receive_lsp: the LSDB after processing lsp
ReceiveLspDb(db, lsp) ==
    IF IsisAccepts(db, lsp) THEN Put(db, lsp.system_id, lsp) ELSE db

\* ISISRouter._flood_lsp: the neighbors the loop selects (its body is "pass")
IsisFloodTargets(nbrs, except_router) ==
    {n \in DOMAIN nbrs : n # except_router /\ nbrs[n].state = "UP"}

\* ISISRouter._send_lsps: every record of the own LSDB goes through the own
\* _receive_lsp
RECURSIVE SendLsps(_, _, _)
SendLsps(db, src, todo) ==
    IF todo = {} THEN db
    ELSE LET o == CHOOSE x \in todo : TRUE
         IN  SendLsps(ReceiveLspDb(db, src[o]), src, todo \ {o})

\* ISISRouter.__init__
NewIsisRouter(self, lvl) ==
    [neighbors |-> Empty, lsdb |-> (self :> CreateSelfLsp(self, << >>, lvl)), interfaces |-> << >>]

\* ISISRouter.receive_hello on a router of level lvl
IsisReceiveHelloRS(rs, lvl, n, ifname, neighbor_level) ==
    LET rs1 == IF n \notin DOMAIN rs.neighbors
               THEN [rs EXCEPT !.neighbors =
                        Put(@, n, [state |-> "INIT", interface |-> ifname,
                                   level |-> neighbor_level])]
               ELSE rs
    IN  IF rs1.neighbors[n].state = "INIT" /\ LevelsCompatible(lvl, neighbor_level)
        THEN [rs1 EXCEPT !.neighbors[n].state = "UP",
                         !.lsdb = SendLsps(@, @, DOMAIN @)]
        ELSE rs1

\* ISISRouter.receive_hello(n, ..., neighbor_level) on a router of level lvl:
\* its statements on the neighbor's entry, in order
IsisHelloEvents(nbrs, lvl, n, neighbor_level, db) ==
    LET created == IF n \notin DOMAIN nbrs THEN <<Assign("INIT")>> ELSE << >>
        state   == IF n \notin DOMAIN nbrs THEN "INIT" ELSE nbrs[n].state
    IN  IF state = "INIT" /\ LevelsCompatible(lvl, neighbor_level)
        THEN created \o <<Assign("UP"), Inject(DOMAIN db)>>
        ELSE created

\* the state after ISISRouter(r, IsisLevel[r]) for each id of rs
InitIsis(rs) ==
    /\ routers = rs
    /\ links = << >>
    /\ neighbors = [r \in rs |-> NewIsisRouter(r, IsisLevel[r]).neighbors]
    /\ lsdb = [r \in rs |-> NewIsisRouter(r, IsisLevel[r]).lsdb]
    /\ interfaces = [r \in rs |-> NewIsisRouter(r, IsisLevel[r]).interfaces]
    /\ routing_table = [r \in rs |-> Empty]
    /\ last = Op("init", None, FALSE)
    /\ seen = [r \in rs |-> [o \in Nodes |-> IF o = r THEN 0 ELSE -1]]
    /\ running = [r \in rs |-> FALSE]
    /\ threads = [r \in rs |-> << >>]
    /\ returned = Empty
    /\ now = 0
    /\ last_hello = [r \in rs |-> Empty]

\* ISISRouter.receive_hello(n, ifname, neighbor_level) on router r
IsisReceiveHello(r, n, ifname, neighbor_level) ==
    LET rs2 == IsisReceiveHelloRS(RS(r), IsisLevel[r], n, ifname, neighbor_level)
    IN  /\ neighbors' = [neighbors EXCEPT ![r] = rs2.neighbors]
        /\ lsdb' = [lsdb EXCEPT ![r] = rs2.lsdb]
        /\ seen' = Observe(seen, r, rs2.lsdb)
        /\ last' = Op("isis_receive_hello", r, FALSE)
        /\ UNCHANGED sched
        /\ last_hello' = [last_hello EXCEPT ![r] = Put(@, n, now)]
        /\ UNCHANGED now
        /\ UNCHANGED <<routers, links, interfaces, routing_table>>

\* ISISRouter.receive_lsp(lsp, from_router) on router r
IsisReceiveLsp(r, lsp, from_router) ==
    /\ lsdb' = [lsdb EXCEPT ![r] = ReceiveLspDb(@, lsp)]
    /\ seen' = [seen EXCEPT ![r][lsp.system_id] = Max(@, lsp.sequence)]
    /\ last' = Op("isis_receive_lsp", r, IsisAccepts(lsdb[r], lsp))
    /\ UNCHANGED sched
    /\ UNCHANGED clock
    /\ UNCHANGED <<routers, links, neighbors, interfaces, routing_table>>

-----------------------------------------------------------------------------
(* SpecHello: adjacency formation on a single router, as TEST 3 of         *)
(* verify_implementation.py tries it for both classes.  The router is the  *)
(* OSPFRouter D or one of the ISISRouters A (L1), B (L2), C (L1L2).  Peers *)
(* say hello on any interface, the ISIS ones advertising any level; the    *)
(* OSPF router loses silent neighbors, the ISIS router receives records of *)
(* origin D.                                                               *)

HelloPeers == {"A", "B"}

IsisPeers == {"B", "D"}

HelloLsps == {LSP("D", sq, << >>, "L1") : sq \in 0..MaxSeq}

InitHello ==
    \E r \in Nodes : IF r \in DOMAIN IsisLevel THEN InitIsis({r}) ELSE InitNetwork({r})

NextHello ==
    \/ \E n \in HelloPeers, nm \in Ifaces :
          /\ "D" \in routers
          /\ ReceiveHello("D", n, nm)
    \/ \E n \in HelloPeers :
          /\ "D" \in routers
          /\ HelloLoopExpire("D", {n})
    \/ \E r \in routers \cap DOMAIN IsisLevel :
          \E n \in IsisPeers \ {r}, nm \in Ifaces, lvl \in Levels :
              IsisReceiveHello(r, n, nm, lvl)
    \/ \E r \in routers \cap DOMAIN IsisLevel :
          \E lsp \in HelloLsps, n \in IsisPeers \ {r} : IsisReceiveLsp(r, lsp, n)

SpecHello == InitHello /\ [][NextHello]_vars

-----------------------------------------------------------------------------
(* SpecLine: the scenario of combined_demo.py.  The two links of the line  *)
(* A-B-C are paired once each, in either order; then the routers hand each *)
(* other the records of their LSDBs, in any order, and A runs              *)
(* calculate_spf.                                                          *)

Paired(t) == \E i \in DOMAIN links : links[i][1] = t[1] /\ links[i][2] = t[2]

\* no delivery of a neighbor's record changes any LSDB
Converged ==
    \A r \in routers : \A n \in DOMAIN neighbors[r] \cap routers :
        \A o \in DOMAIN lsdb[n] : ~Accepts(lsdb[r], lsdb[n][o])

LinePaired == \A t \in Topology : Paired(t)

NextLine ==
    \/ \E t \in Topology :
          /\ ~Paired(t)
          /\ ConnectRouters(t[1], t[2], t[3], t[4], t[5])
    \/ /\ LinePaired
       /\ \E r \in routers, n \in routers, o \in Nodes : Exchange(r, n, o)
    \/ /\ LinePaired
       /\ CalculateSpf("A")

SpecLine == Init /\ [][NextLine]_vars

-----------------------------------------------------------------------------
(* SpecRing: the scenario of route_loop_demo.py.  The ring A-B-C-D-A is    *)
(* paired in the demo's order, the routers hand each other the records of  *)
(* their LSDBs, in any order; once no delivery changes an LSDB the link    *)
(* between D and A fails; A runs calculate_spf before and after that.      *)

\* route_loop_demo.py, lines 21-24: the connect_routers calls of the ring
RingTopology ==
    << <<"A", "B", "eth0", "eth0", 10>>,
       <<"B", "C", "eth1", "eth0", 10>>,
       <<"C", "D", "eth1", "eth0", 10>>,
       <<"D", "A", "eth1", "eth1", 100>> >>

RingPaired == Len(links) = Len(RingTopology)

\* the link between D and A has been taken down
RingLinkDown == RingPaired /\ "D" \notin DOMAIN neighbors["A"]

InitRing == InitNetwork({"A", "B", "C", "D"})

NextRing ==
    \/ /\ ~RingPaired
       /\ LET t == RingTopology[Len(links) + 1]
          IN  ConnectRouters(t[1], t[2], t[3], t[4], t[5])
    \/ /\ RingPaired
       /\ \E r \in routers, n \in routers, o \in Nodes : Exchange(r, n, o)
    \/ /\ RingPaired /\ ~RingLinkDown /\ Converged
       /\ SimulateLinkFailure("D", "A")
    \/ /\ RingPaired /\ Converged
       /\ CalculateSpf("A")

SpecRing == InitRing /\ [][NextRing]_vars

-----------------------------------------------------------------------------
(* SpecThreads: the line A-B-C of combined_demo.py is paired in the demo's *)
(* order and the records travel towards A (B takes from C, A from B).      *)
(* Meanwhile router A is started and stopped, its two scheduler threads    *)
(* run, and the caller reads A's table or runs calculate_spf on A itself.  *)
(* SpecThreadsFair adds what the operating system's scheduler gives a live *)
(* thread: a thread that can take its next step takes it in the end (a     *)
(* sleep ends, a runnable thread gets the processor).                      *)

NextThreads ==
    \/ \E t \in Topology :
          /\ ~Paired(t)
          /\ t[1] = "A" \/ Paired(<<"A", "B">>)
          /\ ConnectRouters(t[1], t[2], t[3], t[4], t[5])
    \/ \E o \in Nodes : Exchange("B", "C", o) \/ Exchange("A", "B", o)
    \/ Start("A")
    \/ Stop("A")
    \/ GetRoutingTable("A")
    \/ CalculateSpf("A")
    \/ HelloThreadStep("A")
    \/ SpfThreadStep("A")

SpecThreads == Init /\ [][NextThreads]_vars

SpecThreadsFair ==
    SpecThreads /\ WF_vars(HelloThreadStep("A")) /\ WF_vars(SpfThreadStep("A"))

-----------------------------------------------------------------------------
(* SpecIface: routers A and B; interfaces are added to A by add_interface   *)
(* called directly (again and again, with the same or with other           *)
(* arguments) and once by connect_routers, which also attaches A and B to  *)
(* the interfaces it names; A takes records from B and computes its routes *)
(* in between.                                                             *)

InitIface == InitNetwork({"A", "B"})

NextIface ==
    \/ \E nm \in Ifaces, c \in Costs :
          /\ links = << >>
          /\ ConnectRouters("A", "B", nm, "eth0", c)
    \/ \E nm \in Ifaces, c \in Costs : AddInterface("A", nm, c)
    \/ \E o \in routers : Exchange("A", "B", o)
    \/ CalculateSpf("A")

SpecIface == InitIface /\ [][NextIface]_vars

-----------------------------------------------------------------------------
(* SpecRemoval: the line A-B-C is paired in the demo's order, records      *)
(* travel between neighbors and routes are computed; then neighbors go:    *)
(* a link of the line is taken down by simulate_link_failure, or a router  *)
(* finds one of its neighbors silent for longer than dead_interval.        *)

NextRemoval ==
    \/ \E t \in Topology :
          /\ ~Paired(t)
          /\ t[1] = "A" \/ Paired(<<"A", "B">>)
          /\ ConnectRouters(t[1], t[2], t[3], t[4], t[5])
    \/ \E r \in routers, n \in routers, o \in Nodes :
          /\ LinePaired
          /\ Exchange(r, n, o)
    \/ \E r \in routers : CalculateSpf(r)
    \/ \E t \in Range(links) : SimulateLinkFailure(t[1], t[2])
    \/ \E r \in routers, n \in Nodes : HelloLoopExpire(r, {n})

SpecRemoval == Init /\ [][NextRemoval]_vars

-----------------------------------------------------------------------------
(* SpecTimer: routers A and B with a clock.  A and B are paired, A is      *)
(* started and stopped and its two threads run; time passes in steps of    *)
(* one hello interval up to MaxTime; B's hello reaches A at any time or    *)
(* stays away, and the link between them is taken down.                    *)

MaxTime == 50

NextTimer ==
    \/ /\ links = << >>
       /\ ConnectRouters("A", "B", "eth0", "eth0", 10)
    \/ Tick(MaxTime)
    \/ /\ links # << >>
       /\ ReceiveHello("A", "B", "eth0")
    \/ /\ links # << >>
       /\ SimulateLinkFailure("A", "B")
    \/ Start("A")
    \/ Stop("A")
    \/ TimedHelloThreadStep("A")
    \/ SpfThreadStep("A")

SpecTimer == InitIface /\ [][NextTimer]_vars

SpecTimerFair ==
    SpecTimer /\ WF_vars(TimedHelloThreadStep("A")) /\ WF_vars(SpfThreadStep("A"))

-----------------------------------------------------------------------------
(* Reference notions the claims are stated in; none of them is used by the *)
(* model of the code                                                       *)

SetMin(S) == CHOOSE x \in S : \A y \in S : x <= y

\* the directed edges <<origin, neighbor, cost>> of the graph an LSDB describes
LsdbEdges(db) ==
    {e \in UNION {{<<o, db[o].links[i].neighbor_router_id, db[o].links[i].cost>> :
                        i \in DOMAIN db[o].links} : o \in DOMAIN db} :
        e[2] \in DOMAIN db}

\* one round of Bellman-Ford on the least costs known so far
BellmanFordStep(E, D) ==
    LET out == {e \in E : e[1] \in DOMAIN D}
    IN  [v \in DOMAIN D \cup {e[2] : e \in out} |->
            SetMin((IF v \in DOMAIN D THEN {D[v]} ELSE {}) \cup
                   {D[e[1]] + e[3] : e \in {x \in out : x[2] = v}})]

RECURSIVE BellmanFord(_, _, _)
BellmanFord(E, D, k) == IF k = 0 THEN D ELSE BellmanFord(E, BellmanFordStep(E, D), k - 1)

\* least total cost of a directed path from src to every vertex it reaches
LeastCosts(db, src) == BellmanFord(LsdbEdges(db), (src :> 0), Cardinality(DOMAIN db))

\* the vertices h with an edge src -> h that starts a least-cost path to dest
LeastCostFirstHops(db, src, dest) ==
    LET D == LeastCosts(db, src)
    IN  {e[2] : e \in {x \in LsdbEdges(db) :
                        /\ x[1] = src
                        /\ dest \in DOMAIN LeastCosts(db, x[2])
                        /\ x[3] + LeastCosts(db, x[2])[dest] = D[dest]}}

\* h is in the Neighbor Table of r and in the neighbor set of an interface of r
Resolvable(r, h) ==
    /\ h \in DOMAIN neighbors[r]
    /\ \E i \in DOMAIN interfaces[r] : h \in interfaces[r][i].neighbors

\* number of edges of the predecessor path from the computing router to dest
Hops(dest, previous) == Len(BackPath(dest, previous))

-----------------------------------------------------------------------------
(* C8: after calculate_spf on a router whose LSDB holds at least two       *)
(* origins (all link costs are positive), every route's cost is the least  *)
(* total cost of a directed path to the destination in the LSDB graph, and *)
(* every destination reachable in that graph whose first hop is a neighbor *)
(* resolvable to an interface has a route (first hop: that of the          *)
(* predecessor path, and also when every least-cost first hop qualifies).  *)
C8_RouteCostsAreLeast ==
    SpfDone =>
        LET r   == last.router
            db  == lsdb[r]
            D   == LeastCosts(db, r)
            tbl == routing_table[r]
            st  == Dijkstra(r, db)
        IN  Cardinality(DOMAIN db) >= 2 =>
              /\ \A d \in DOMAIN tbl : d \in DOMAIN D /\ tbl[d].cost = D[d]
              /\ \A d \in DOMAIN D \ {r} :
                    /\ d \in DOMAIN st.previous
                    /\ Resolvable(r, FindNextHop(r, d, st.previous)) => d \in DOMAIN tbl
                    /\ (\A h \in LeastCostFirstHops(db, r, d) : Resolvable(r, h))
                          => d \in DOMAIN tbl

\* a route whose cost a later relaxation had to improve: B is reached through
\* another vertex for less than over the direct link
C8_Witness ==
    /\ SpfDone
    /\ "B" \in DOMAIN routing_table["A"]
    /\ \E e \in LsdbEdges(lsdb["A"]) :
          e[1] = "A" /\ e[2] = "B" /\ e[3] > routing_table["A"]["B"].cost

(* C9 as claimed: the next hop of every route is the vertex following the  *)
(* computing router on the predecessor path, the first hop of a least-cost *)
(* path, and for a destination two or more hops away it is not the         *)
(* destination's immediate predecessor.                                    *)
C9_NextHopNeverPredecessor ==
    SpfDone =>
        LET r  == last.router
            st == Dijkstra(r, lsdb[r])
        IN  \A d \in DOMAIN routing_table[r] :
                Hops(d, st.previous) >= 2 => routing_table[r][d].next_hop # st.previous[d]

(* C9 as amended: the next hop of every route is the vertex following the  *)
(* computing router on the predecessor path and the first hop of a         *)
(* least-cost path; it is the destination's immediate predecessor exactly  *)
(* when the destination is two hops away, never when it is three or more   *)
(* hops away.                                                              *)
C9_NextHopIsFirstHop ==
    SpfDone =>
        LET r  == last.router
            st == Dijkstra(r, lsdb[r])
        IN  \A d \in DOMAIN routing_table[r] :
                LET nh   == routing_table[r][d].next_hop
                    back == BackPath(d, st.previous)
                IN  /\ nh = back[Len(back)]
                    /\ st.previous[nh] = r
                    /\ nh \in LeastCostFirstHops(lsdb[r], r, d)
                    /\ (nh = st.previous[d]) <=> (Hops(d, st.previous) = 2)
                    /\ Hops(d, st.previous) >= 3 => nh # st.previous[d]

\* a route to D over the three-hop predecessor path A, B, C, D
C9_Witness ==
    /\ SpfDone
    /\ "D" \in DOMAIN routing_table["A"]
    /\ routing_table["A"]["D"].next_hop = "B"
    /\ Hops("D", Dijkstra("A", lsdb["A"]).previous) = 3

-----------------------------------------------------------------------------
(* C10: immediately after calculate_spf, every route's next hop is in the  *)
(* Neighbor Table and in the neighbor set of the route's egress interface; *)
(* a reached destination whose first hop is not in the Neighbor Table, or  *)
(* is in no interface's neighbor set, has no route.                        *)
C10_NextHopIsResolvableNeighbor ==
    SpfDone =>
        LET r   == last.router
            tbl == routing_table[r]
            st  == Dijkstra(r, lsdb[r])
        IN  /\ \A d \in DOMAIN tbl :
                  /\ tbl[d].next_hop \in DOMAIN neighbors[r]
                  /\ \E i \in DOMAIN interfaces[r] :
                        /\ interfaces[r][i].name = tbl[d].interface
                        /\ tbl[d].next_hop \in interfaces[r][i].neighbors
            /\ Cardinality(DOMAIN lsdb[r]) >= 2 =>
                  \A d \in DOMAIN st.previous :
                      ~Resolvable(r, FindNextHop(r, d, st.previous)) => d \notin DOMAIN tbl

\* one table built with a route over B and none for two reached destinations:
\* one behind C, a neighbor on no interface, one behind D, no neighbor at all
C10_Witness ==
    /\ SpfDone
    /\ \E d \in DOMAIN routing_table["A"] : routing_table["A"][d].next_hop = "B"
    /\ LET st == Dijkstra("A", lsdb["A"])
       IN  /\ \E d \in DOMAIN st.previous \ DOMAIN routing_table["A"] :
                 FindNextHop("A", d, st.previous) = "C"
           /\ \E d \in DOMAIN st.previous \ DOMAIN routing_table["A"] :
                 FindNextHop("A", d, st.previous) = "D"

-----------------------------------------------------------------------------
(* C1: receive_lsa makes the record the stored one for its origin exactly  *)
(* when the origin is absent from the LSDB or the record's sequence number *)
(* is strictly greater than the stored one (and then calls the flood       *)
(* routine); otherwise the LSDB is unchanged and the flood routine is not  *)
(* called.                                                                 *)
C1_AcceptanceRule ==
    [][\A lsa \in LsdbLsas, from \in {"B", "C"} :
          ReceiveLsa("A", lsa, from) =>
              LET o    == lsa.router_id
                  db   == lsdb["A"]
                  news == o \notin DOMAIN db \/ lsa.sequence > db[o].sequence
              IN  IF news
                  THEN /\ DOMAIN lsdb'["A"] = DOMAIN db \cup {o}
                       /\ lsdb'["A"][o] = lsa
                       /\ \A x \in DOMAIN db \ {o} : lsdb'["A"][x] = db[x]
                       /\ last'.flooded
                  ELSE /\ lsdb' = lsdb
                       /\ ~last'.flooded]_vars

\* a record of origin B arrived after B's record with the highest sequence
\* number had been stored, and was dropped
C1_Witness ==
    /\ last.op = "receive_lsa"
    /\ ~last.flooded
    /\ "B" \in DOMAIN lsdb["A"]
    /\ lsdb["A"]["B"].sequence = MaxSeq

(* C2: across receive_lsa calls the sequence number stored for an origin   *)
(* never decreases and no origin leaves the LSDB.                          *)
C2_StoredSequenceMonotonic ==
    [][last'.op = "receive_lsa" =>
          \A r \in routers : \A o \in DOMAIN lsdb[r] :
              /\ o \in DOMAIN lsdb'[r]
              /\ lsdb'[r][o].sequence >= lsdb[r][o].sequence]_vars

\* the router's own record, built with sequence number 0, has been replaced
\* by a received one, and a later record was dropped
C2_Witness ==
    /\ last.op = "receive_lsa"
    /\ ~last.flooded
    /\ lsdb["A"]["A"].sequence >= 1
    /\ seen["A"]["B"] >= 1

(* C3: in every state the sequence number stored for each origin of a      *)
(* router's LSDB, its own id included, is the highest one the router ever  *)
(* stored or received for that origin.                                     *)
C3_StoredIsMaxObserved ==
    \A r \in routers : \A o \in DOMAIN lsdb[r] : lsdb[r][o].sequence = seen[r][o]

-----------------------------------------------------------------------------
(* C4: when a router accepts a record received from a peer, every other    *)
(* neighbor of it whose adjacency is FULL holds afterwards a record of     *)
(* that origin with at least that sequence number, and the LSDB of the     *)
(* other routers (the sender, the neighbors that are not FULL) is left     *)
(* alone.                                                                  *)
C4_AcceptedRecordIsFlooded ==
    [][\A r \in routers, n \in routers, o \in Nodes :
          (Exchange(r, n, o) /\ Accepts(lsdb[r], lsdb[n][o])) =>
              \A t \in routers \ {r} :
                  IF t \in FloodTargets(neighbors[r], n)
                  THEN /\ o \in DOMAIN lsdb'[t]
                       /\ lsdb'[t][o].sequence >= lsdb[n][o].sequence
                  ELSE lsdb'[t] = lsdb[t]]_vars

(* C5: when connect_routers has brought the adjacency of two routers to    *)
(* FULL, each of them holds, for every record the other one held at that   *)
(* moment, a record of the same origin with at least that sequence number. *)
C5_ExchangeDeliversDatabase ==
    [][\A t \in Topology :
          ConnectRouters(t[1], t[2], t[3], t[4], t[5]) =>
              \A x \in {t[1], t[2]} : \A n \in {t[1], t[2]} \ {x} :
                  neighbors'[x][n].state = "FULL" =>
                      \A o \in DOMAIN lsdb'[x] :
                          /\ o \in DOMAIN lsdb'[n]
                          /\ lsdb'[n][o].sequence >= lsdb'[x][o].sequence]_vars

-----------------------------------------------------------------------------
(* C6: with the line A-B-C paired (the two links in either order, cost 10  *)
(* each) and the records exchanged until no LSDB changes, calculate_spf on *)
(* A leaves a route to C with cost 20 and next hop B.                      *)
C6_LineConverges ==
    (LinePaired /\ Converged /\ SpfDone) =>
        /\ "C" \in DOMAIN routing_table["A"]
        /\ routing_table["A"]["C"].cost = 20
        /\ routing_table["A"]["C"].next_hop = "B"

(* C7: with the ring A-B-C-D-A paired (cost 100 between D and A, 10        *)
(* elsewhere), the records exchanged, the link between D and A taken down  *)
(* and calculate_spf run on A, A has a route to D with next hop B and cost *)
(* 30, and no route with next hop D.                                       *)
C7_RingReconverges ==
    (RingLinkDown /\ SpfDone) =>
        /\ "D" \in DOMAIN routing_table["A"]
        /\ routing_table["A"]["D"].next_hop = "B"
        /\ routing_table["A"]["D"].cost = 30
        /\ \A d \in DOMAIN routing_table["A"] : routing_table["A"][d].next_hop # "D"

-----------------------------------------------------------------------------
(* C11: in every state, no router's Routing Table has an entry whose       *)
(* destination is the router's own id.                                     *)
C11_NoRouteToSelf ==
    \A r \in routers : r \notin DOMAIN routing_table[r]

\* a table with routes, built from an LSDB whose graph has an edge into the
\* computing router
C11_Witness ==
    /\ SpfDone
    /\ routing_table[last.router] # Empty
    /\ \E e \in LsdbEdges(lsdb[last.router]) : e[2] = last.router

(* C12: calculate_spf on a router whose LSDB holds at least two origins    *)
(* leaves exactly the routes derived from the current LSDB, Neighbor Table *)
(* and Interface Table: one for each destination reachable in the LSDB     *)
(* graph whose first hop is a neighbor on an interface, with the least     *)
(* cost, that first hop and its interface; nothing else of the previous    *)
(* table survives.  With fewer than two origins the table is unchanged.    *)
C12_TableFullyReplaced ==
    [][\A r \in routers :
          CalculateSpf(r) =>
              IF Cardinality(DOMAIN lsdb[r]) >= 2
              THEN LET D   == LeastCosts(lsdb[r], r)
                       st  == Dijkstra(r, lsdb[r])
                       nh(d) == FindNextHop(r, d, st.previous)
                   IN  /\ DOMAIN routing_table'[r] =
                              {d \in DOMAIN D \ {r} : Resolvable(r, nh(d))}
                       /\ \A d \in DOMAIN routing_table'[r] :
                              routing_table'[r][d] =
                                  Route(nh(d), D[d], GetInterfaceToNeighbor(interfaces[r], nh(d)))
              ELSE routing_table'[r] = routing_table[r]]_vars

\* calculate_spf has left router A, once paired with B and still holding B's
\* record, without any route: the link to B is down
C12_Witness ==
    /\ SpfDone /\ last.router = "A"
    /\ Paired(<<"A", "B">>)
    /\ "B" \in DOMAIN lsdb["A"]
    /\ "B" \notin DOMAIN neighbors["A"]
    /\ routing_table["A"] = Empty

-----------------------------------------------------------------------------
(* C13: after a hello from a peer that is not in the Neighbor Table the    *)
(* peer has an entry.  On the OSPF router the states assigned to it were   *)
(* INIT, 2-WAY, EXSTART, EXCHANGE and FULL, in that order and LOADING not  *)
(* among them, and it is FULL; on the ISIS router it is UP when either     *)
(* level is L1L2 or the two levels are equal.                              *)
C13_HelloFormsAdjacency ==
    [][/\ \A n \in HelloPeers, nm \in Ifaces :
             ("D" \in routers /\ ReceiveHello("D", n, nm) /\ n \notin DOMAIN neighbors["D"]) =>
                 /\ n \in DOMAIN neighbors'["D"]
                 /\ neighbors'["D"][n].state = "FULL"
                 /\ HelloStates(neighbors["D"], n) =
                        <<"INIT", "2-WAY", "EXSTART", "EXCHANGE", "FULL">>
       /\ \A r \in routers \cap DOMAIN IsisLevel :
             \A n \in IsisPeers \ {r}, nm \in Ifaces, lvl \in Levels :
                 (IsisReceiveHello(r, n, nm, lvl) /\ n \notin DOMAIN neighbors[r]) =>
                     /\ n \in DOMAIN neighbors'[r]
                     /\ (lvl = "L1L2" \/ IsisLevel[r] = "L1L2" \/ lvl = IsisLevel[r])
                            => neighbors'[r][n].state = "UP"]_vars

\* the OSPF router has brought both of its peers to FULL, one on each
\* interface
C13_Witness ==
    /\ "D" \in routers
    /\ last.op = "receive_hello"
    /\ DOMAIN neighbors["D"] = HelloPeers
    /\ \A n \in HelloPeers : neighbors["D"][n].state = "FULL"
    /\ neighbors["D"]["A"].interface # neighbors["D"]["B"].interface

(* C14: on an ISIS router of level L1 or L2, a hello advertising the other *)
(* single level leaves a peer that is new or in INIT in state INIT, leaves *)
(* the LSDB alone, and the peer is not selected for flooding, whoever the  *)
(* sender of the flooded record is; and nothing but a hello changes the    *)
(* state of a neighbor.                                                    *)
C14_IncompatibleLevelStaysInit ==
    [][/\ \A r \in routers \cap DOMAIN IsisLevel :
             \A n \in IsisPeers \ {r}, nm \in Ifaces, lvl \in Levels \ {"L1L2"} :
                 (/\ IsisReceiveHello(r, n, nm, lvl)
                  /\ IsisLevel[r] # "L1L2" /\ lvl # IsisLevel[r]
                  /\ n \in DOMAIN neighbors[r] => neighbors[r][n].state = "INIT") =>
                     /\ neighbors'[r][n].state = "INIT"
                     /\ lsdb' = lsdb
                     /\ \A x \in Nodes : n \notin IsisFloodTargets(neighbors'[r], x)
       /\ last'.op # "isis_receive_hello" =>
             \A r \in routers \cap DOMAIN IsisLevel : neighbors'[r] = neighbors[r]]_vars

\* the L1 router has heard a hello of level L2 from each of its peers, and
\* both are in INIT
C14_Witness ==
    /\ "A" \in routers
    /\ last.op = "isis_receive_hello"
    /\ DOMAIN neighbors["A"] = IsisPeers
    /\ \A n \in IsisPeers : neighbors["A"][n].state = "INIT" /\ neighbors["A"][n].level = "L2"

-----------------------------------------------------------------------------
(* C15: a record received through receive_lsa whose origin is the          *)
(* receiving router's own id never replaces the router's own record,       *)
(* whatever its sequence number.                                           *)
C15_OwnRecordNotReplaced ==
    [][\A lsa \in LsdbLsas, from \in {"B", "C"} :
          (ReceiveLsa("A", lsa, from) /\ lsa.router_id = "A") =>
              lsdb'["A"]["A"] = lsdb["A"]["A"]]_vars

\* the operations of router r that the one lock of the router has to keep apart
GuardedOps ==
    {"hello_loop", "spf_loop", "receive_hello", "receive_lsa", "add_interface",
     "calculate_spf"}

\* C16: on one router the liveness-checker iteration, the periodic
\* recomputation, receive_hello, receive_lsa, add_interface and calculate_spf
\* are critical sections: while the periodic recomputation of a router is in
\* the middle of rebuilding the Routing Table, the next step of any of these
\* operations on that router is the recomputation's own, so that no other one
\* runs between two of its steps.
C16_OperationsAreCriticalSections ==
    [][\A r \in routers :
          ( /\ \E i \in DOMAIN threads[r] : threads[r][i].pc = "build"
            /\ last'.router = r
            /\ last'.op \in GuardedOps )
          => last'.op = "spf_loop"]_vars

\* C17: a get_routing_table that runs while a recomputation on another thread
\* is under way returns the complete table from before the recomputation or
\* the complete table the recomputation produces, never an emptied or partly
\* filled one; and a recomputation step leaves the returned table as it was.
C17_ReadIsAtomicSnapshot ==
    [][\A r \in routers :
          /\ GetRoutingTable(r) =>
                \A i \in DOMAIN threads[r] :
                    threads[r][i].pc = "build" =>
                        \/ returned' = threads[r][i].old
                        \/ returned' = BuildRoutingTable(r, neighbors[r], interfaces[r],
                                                         threads[r][i].st)
          /\ (last'.router = r /\ last'.op \in {"spf_loop", "calculate_spf"}) =>
                returned' = returned]_vars

\* C18: stop() can be called in every state (before start, after an earlier
\* stop, while a scheduler thread is in the middle of an iteration), and if
\* from some point on the router stays stopped (no start() follows the last
\* stop()), then from some point on none of its scheduler threads is left:
\* the liveness checker and the periodic recomputation have both returned.
C18_StopEndsSchedulers ==
    /\ [](ENABLED Stop("A"))
    /\ (<>[](~running["A"])) => <>[](threads["A"] = << >>)

\* a stop() that found the SPF thread inside _build_routing_table, after which
\* both loops have run to their while test and returned
C18_Witness ==
    /\ ~running["A"]
    /\ threads["A"] = << >>
    /\ last.op \in {"hello_while", "spf_while"}
    /\ routing_table["A"] # Empty

\* C19: once a router is stopped (stop() has returned and start() has not
\* been called since), no step of its scheduler threads changes its state: the
\* periodic recomputation does not replace the Routing Table and the liveness
\* checker removes no neighbor.
C19_StoppedSchedulersChangeNothing ==
    [][\A r \in routers :
          ( /\ ~running[r]
            /\ last'.router = r
            /\ last'.op \in {"hello_while", "hello_loop", "spf_while", "spf_loop"} )
          => /\ routing_table'[r] = routing_table[r]
             /\ neighbors'[r] = neighbors[r]
             /\ lsdb'[r] = lsdb[r]
             /\ interfaces'[r] = interfaces[r]]_vars

\* C20: add_interface called with the name and cost of an interface the router
\* already has (the address, which no branch reads, taken to be the same too)
\* changes nothing on that router: not the Interface Table with the neighbor
\* sets of its interfaces, not the LSDB with the router's own record, not the
\* Neighbor Table and not the Routing Table.
C20_AddInterfaceIdempotent ==
    [][\A r \in routers, nm \in Ifaces, c \in Costs :
          ( /\ AddInterface(r, nm, c)
            /\ \E i \in DOMAIN interfaces[r] :
                  interfaces[r][i].name = nm /\ interfaces[r][i].cost = c )
          => /\ interfaces'[r] = interfaces[r]
             /\ lsdb'[r] = lsdb[r]
             /\ neighbors'[r] = neighbors[r]
             /\ routing_table'[r] = routing_table[r]]_vars

\* C21: connect_routers with a router id that is not in the network ends in
\* an error and changes nothing: the link list of the network and the
\* interfaces, neighbors, LSDB and routing table of every router are as before.
C21_ConnectUnknownMutatesNothing ==
    [][last'.op = "connect_error" =>
          /\ links' = links
          /\ routers' = routers
          /\ interfaces' = interfaces
          /\ neighbors' = neighbors
          /\ lsdb' = lsdb
          /\ routing_table' = routing_table]_vars

\* the error has been raised in a network that has a link, an adjacency
\* and a route
C21_Witness ==
    /\ last.op = "connect_error"
    /\ links # << >>
    /\ \E r \in routers : neighbors[r] # Empty /\ routing_table[r] # Empty

\* the state of neighbor n of a router before a handler runs
StateOf(nbrs, n) == IF n \in DOMAIN nbrs THEN nbrs[n].state ELSE None

\* C22: the exchange of the whole LSDB towards a peer happens only on the
\* peer's adjacency reaching the terminal state: whenever a hello handler
\* injects records, the peer's Neighbor Table entry is FULL (OSPF) or UP
\* (ISIS) at that moment, and a hello that injects nothing leaves the LSDB
\* as it was.
C22_ExchangeOnlyWhenTerminal ==
    [][/\ \A n \in HelloPeers, nm \in Ifaces :
             ("D" \in routers /\ ReceiveHello("D", n, nm)) =>
                 LET ev == HelloEvents(neighbors["D"], n, lsdb["D"])
                 IN  /\ \A k \in DOMAIN ev :
                            ev[k].kind = "send" =>
                                StateAt(ev, k, StateOf(neighbors["D"], n)) = "FULL"
                     /\ (\A k \in DOMAIN ev : ev[k].kind # "send") => lsdb' = lsdb
       /\ \A r \in routers \cap DOMAIN IsisLevel :
             \A n \in IsisPeers \ {r}, nm \in Ifaces, lvl \in Levels :
                 IsisReceiveHello(r, n, nm, lvl) =>
                     LET ev == IsisHelloEvents(neighbors[r], IsisLevel[r], n, lvl, lsdb[r])
                     IN  /\ \A k \in DOMAIN ev :
                                ev[k].kind = "send" =>
                                    StateAt(ev, k, StateOf(neighbors[r], n)) = "UP"
                         /\ (\A k \in DOMAIN ev : ev[k].kind # "send") => lsdb' = lsdb]_vars

\* what simulate_link_failure has to leave of router r when its link to peer
\* goes: the Neighbor Table without peer's entry, every interface without peer
\* in its neighbor set, and nothing else touched
LinkDownRemovesExactly(r, peer) ==
    /\ DOMAIN neighbors'[r] = DOMAIN neighbors[r] \ {peer}
    /\ \A n \in DOMAIN neighbors'[r] : neighbors'[r][n] = neighbors[r][n]
    /\ DOMAIN interfaces'[r] = DOMAIN interfaces[r]
    /\ \A i \in DOMAIN interfaces[r] :
          interfaces'[r][i] = [interfaces[r][i] EXCEPT !.neighbors = @ \ {peer}]

\* C23: the removal of a neighbor, by the liveness timeout or by
\* simulate_link_failure, changes no router's LSDB or Routing Table and delivers
\* no record; simulate_link_failure removes on each side exactly the other
\* router's neighbor entry and its membership in every interface neighbor set
\* and leaves the other routers alone; and the Routing Table changes at a
\* calculate_spf only.
C23_RemovalTouchesNeighborsOnly ==
    [][/\ last'.op \in {"simulate_link_failure", "hello_loop"} =>
             /\ lsdb' = lsdb
             /\ routing_table' = routing_table
             /\ seen' = seen
       /\ \A t \in Range(links) :
             SimulateLinkFailure(t[1], t[2]) =>
                 /\ LinkDownRemovesExactly(t[1], t[2])
                 /\ LinkDownRemovesExactly(t[2], t[1])
                 /\ \A r \in routers \ {t[1], t[2]} :
                       neighbors'[r] = neighbors[r] /\ interfaces'[r] = interfaces[r]
       /\ routing_table' # routing_table => last'.op = "calculate_spf"]_vars

\* the link A-B has just been taken down while A still holds the routes it had
\* computed through B, and B is gone from A's neighbors and interfaces
C23_Witness ==
    /\ last.op = "simulate_link_failure"
    /\ "B" \notin DOMAIN neighbors["A"]
    /\ \A i \in DOMAIN interfaces["A"] : "B" \notin interfaces["A"][i].neighbors
    /\ \E d \in DOMAIN routing_table["A"] : routing_table["A"][d].next_hop = "B"
    /\ "B" \in DOMAIN lsdb["A"]

\* C24: the liveness checker removes a neighbor only when the age of its last
\* hello exceeds the hold time (dead_interval, 40 s): at the step at which
\* the hello thread of a router deletes a neighbor entry, the entry's stamp
\* is more than dead_interval old.  (The other half of the claim, that a
\* silent neighbor of a started router is removed in the end, is stated by
\* C24_SilentNeighborRemoved.)
C24_RemovedOnlyWhenExpired ==
    [][\A r \in routers, n \in Nodes :
          ( /\ last'.op = "hello_loop" /\ last'.router = r
            /\ n \in DOMAIN neighbors[r]
            /\ n \notin DOMAIN neighbors'[r] )
          => Expired(now, last_hello[r][n], dead_interval)]_vars

\* a neighbor of the started router A whose stamp is more than dead_interval old
\* is removed in the end, unless it is heard again or A is stopped
C24_SilentNeighborRemoved ==
    ( /\ running["A"]
      /\ "B" \in DOMAIN neighbors["A"]
      /\ Expired(now, last_hello["A"]["B"], dead_interval) )
    ~> ( \/ ~running["A"]
         \/ "B" \notin DOMAIN neighbors["A"]
         \/ ~Expired(now, last_hello["A"]["B"], dead_interval) )

\* C25: liveness expiry never raises: a hello thread that is in the middle of
\* an iteration (past its while test) is still there after the next step,
\* whichever thread takes it, and no step ends in the thread's exception.
C25_ExpiryNeverRaises ==
    [][\A r \in routers :
          (\E i \in DOMAIN threads[r] :
              threads[r][i].kind = "hello" /\ threads[r][i].pc # "loop")
          => /\ \E j \in DOMAIN threads'[r] : threads'[r][j].kind = "hello"
             /\ last'.op # "hello_error"]_vars

\* the routers r is paired with now: neighbors of r put there by a
\* connect_routers of the network
PairedWith(r) ==
    {n \in DOMAIN neighbors[r] :
        \E k \in DOMAIN links : {links[k][1], links[k][2]} = {r, n}}

\* C26: after any sequence of connect_routers calls, the own LSDB record of
\* each router has, for every router it is paired with, a link entry naming
\* that router as neighbor; a pairing on a second interface keeps the neighbor
\* links of the earlier pairings.
C26_OwnRecordNamesEveryPeer ==
    \A r \in routers :
        \A n \in PairedWith(r) :
            \E k \in DOMAIN lsdb[r][r].links :
                lsdb[r][r].links[k].neighbor_router_id = n

\* C27: when a router n has regenerated its own record after a neighbor r
\* stored an earlier one, delivering n's record to r by receive_lsa leaves r
\* with the link list of the regenerated record as its record of origin n.
C27_RegeneratedRecordReachesNeighbor ==
    [][\A r \in routers, n \in routers :
          (Exchange(r, n, n) /\ n \in DOMAIN lsdb[r] /\ r # n)
          => lsdb'[r][n].links = lsdb[n][n].links]_vars

\* C28: in every state of a router, a peer p has a Neighbor Table entry
\* recorded on interface nm exactly when nm is in the Interface Table and p is
\* in the neighbor set of nm.
C28_NeighborsMatchInterfaces ==
    \A r \in routers, p \in Nodes, nm \in Ifaces :
        (p \in DOMAIN neighbors[r] /\ neighbors[r][p].interface = nm)
        <=> \E i \in DOMAIN interfaces[r] :
                interfaces[r][i].name = nm /\ p \in interfaces[r][i].neighbors

\* C29: on the ISIS router, whenever a neighbor entry is UP, the level stored
\* in it is compatible with the router's own level (one of the two is L1L2
\* or they are equal).
C29_UpNeighborLevelCompatible ==
    \A r \in routers \cap DOMAIN IsisLevel :
        \A n \in DOMAIN neighbors[r] :
            neighbors[r][n].state = "UP" =>
                \/ neighbors[r][n].level = "L1L2"
                \/ IsisLevel[r] = "L1L2"
                \/ neighbors[r][n].level = IsisLevel[r]

-----------------------------------------------------------------------------
(* SpecCalc: calculate_spf on router A, one loop iteration at a time.  A   *)
(* is paired with B at cost 0 or 10 and is handed records of B and C whose *)
(* links may name any id (themselves, A, each other, the absent D) at cost *)
(* 0 or 10; a call of calculate_spf then runs its while loop, the for loop *)
(* of _build_routing_table and the while loop of _find_next_hop step by    *)
(* step.  The frame of the call is kept in threads, with kind "calc".      *)

CalcCosts == {0, 10}

\* the neighbor links a record handed to A may carry
CalcEntries == {NbrLink("eth0", c, n) : n \in Nodes, c \in CalcCosts}

\* the origins of the records router A may be handed next
CalcOrigins(db) ==
    {o \in {"B", "C"} : \A x \in DOMAIN db \ {"A"} : Rank(x) < Rank(o)}

InCall(r) == \E i \in DOMAIN threads[r] : threads[r][i].kind = "calc"

\* the call of calculate_spf up to the head of its while loop: the early
\* return, the graph, and the initial distances, previous and unvisited
CalcBegin(r) ==
    /\ ~InCall(r)
    /\ IF Cardinality(DOMAIN lsdb[r]) < 2
       THEN UNCHANGED threads
       ELSE threads' = [threads EXCEPT ![r] =
                Append(@, [Thread("calc", "while") EXCEPT
                              !.st = [distances |-> (r :> 0), order |-> <<r>>,
                                      previous |-> Empty, unvisited |-> DOMAIN lsdb[r]],
                              !.graph = BuildGraph(lsdb[r])])]
    /\ last' = Op("calculate_spf_call", r, FALSE)
    /\ UNCHANGED clock
    /\ UNCHANGED <<routers, links, neighbors, lsdb, routing_table, interfaces, seen,
                   running, returned>>

\* one iteration of the while loop of calculate_spf, or its end, after which
\* _build_routing_table empties the table
CalcWhile(r, i) ==
    /\ i \in DOMAIN threads[r]
    /\ threads[r][i].kind = "calc" /\ threads[r][i].pc = "while"
    /\ LET st == threads[r][i].st
           graph == threads[r][i].graph
       IN  IF st.unvisited = {} \/ \A k \in DOMAIN st.order : st.order[k] \notin st.unvisited
           THEN /\ threads' = [threads EXCEPT ![r][i] =
                                  [@ EXCEPT !.pc = "build", !.todo = st.order]]
                /\ routing_table' = [routing_table EXCEPT ![r] = Empty]
           ELSE LET current == SelectCurrent(st)
                    st1 == [st EXCEPT !.unvisited = @ \ {current}]
                IN  /\ threads' = [threads EXCEPT ![r][i].st =
                                      IF current \in DOMAIN graph
                                      THEN RelaxEdges(st1, current, graph[current], 1)
                                      ELSE st1]
                    /\ UNCHANGED routing_table
    /\ last' = Op("calculate_spf_while", r, FALSE)
    /\ UNCHANGED clock
    /\ UNCHANGED <<routers, links, neighbors, lsdb, interfaces, seen, running, returned>>

\* the head of the for loop of _build_routing_table and the first test of
\* _find_next_hop; at the end of the loop calculate_spf returns
CalcBuild(r, i) ==
    /\ i \in DOMAIN threads[r]
    /\ threads[r][i].kind = "calc" /\ threads[r][i].pc = "build"
    /\ LET th == threads[r][i]
       IN  IF th.todo = << >>
           THEN /\ threads' = [threads EXCEPT ![r] = Remove(@, i)]
                /\ last' = Op("calculate_spf", r, FALSE)
           ELSE /\ threads' = [threads EXCEPT ![r][i] =
                                  IF Head(th.todo) = r
                                     \/ Head(th.todo) \notin DOMAIN th.st.previous
                                  THEN [@ EXCEPT !.todo = Tail(@)]
                                  ELSE [@ EXCEPT !.pc = "walk", !.path = << >>]]
                /\ last' = Op("calculate_spf_build", r, FALSE)
    /\ UNCHANGED clock
    /\ UNCHANGED <<routers, links, neighbors, lsdb, routing_table, interfaces, seen,
                   running, returned>>

\* the variable current of the while loop of _find_next_hop
WalkCurrent(th) ==
    IF th.path = << >> THEN Head(th.todo) ELSE th.st.previous[th.path[Len(th.path)]]

\* one iteration of the while loop of _find_next_hop, or its end: self is
\* appended, path[-2] is the next hop and the route is added if there is one
CalcWalk(r, i) ==
    /\ i \in DOMAIN threads[r]
    /\ threads[r][i].kind = "calc" /\ threads[r][i].pc = "walk"
    /\ LET th == threads[r][i]
           current == WalkCurrent(th)
           path == Append(th.path, r)
           nh == IF Len(path) >= 2 THEN path[Len(path) - 1] ELSE None
           dest == Head(th.todo)
       IN  IF current \in DOMAIN th.st.previous
           THEN /\ threads' = [threads EXCEPT ![r][i].path = Append(@, current)]
                /\ UNCHANGED routing_table
           ELSE /\ threads' = [threads EXCEPT ![r][i] =
                                  [@ EXCEPT !.pc = "build", !.todo = Tail(@),
                                            !.path = << >>]]
                /\ routing_table' = [routing_table EXCEPT ![r] =
                       IF nh # None /\ nh \in DOMAIN neighbors[r]
                          /\ GetInterfaceToNeighbor(interfaces[r], nh) # None
                       THEN Put(@, dest, Route(nh, th.st.distances[dest],
                                               GetInterfaceToNeighbor(interfaces[r], nh)))
                       ELSE @]
    /\ last' = Op("calculate_spf_walk", r, FALSE)
    /\ UNCHANGED clock
    /\ UNCHANGED <<routers, links, neighbors, lsdb, interfaces, seen, running, returned>>

\* a step of the call of calculate_spf in progress on router r
CalcStep(r) ==
    \E i \in DOMAIN threads[r] :
        \/ CalcWhile(r, i)
        \/ CalcBuild(r, i)
        \/ CalcWalk(r, i)

InitCalc == InitNetwork({"A", "B"})

NextCalc ==
    \/ /\ links = << >>
       /\ \E c \in CalcCosts : ConnectRouters("A", "B", "eth0", "eth0", c)
    \/ /\ links # << >>
       /\ ~InCall("A")
       /\ \E o \in CalcOrigins(lsdb["A"]) :
            \E n \in 0..(MaxEdges - EdgeCount(lsdb["A"], DOMAIN lsdb["A"])) :
                \E l \in [1..n -> CalcEntries] :
                    ReceiveLsa("A", LSA(o, 1, l), "B")
    \/ CalcBegin("A")
    \/ CalcStep("A")

SpecCalc == InitCalc /\ [][NextCalc]_vars

\* the call in progress always takes its next step
SpecCalcFair == SpecCalc /\ WF_vars(CalcStep("A"))

CalcFrames(r) == {i \in DOMAIN threads[r] : threads[r][i].kind = "calc"}

NoRepeat(seq) == \A a, b \in DOMAIN seq : a # b => seq[a] # seq[b]

\* an iteration of the while loop of calculate_spf on router r takes exactly
\* one vertex out of unvisited
FinalizesOne(r) ==
    \A i \in CalcFrames(r) :
        (threads[r][i].pc = "while" /\ i \in DOMAIN threads'[r]
         /\ threads'[r][i].pc = "while" /\ last'.op = "calculate_spf_while")
        => /\ threads'[r][i].st.unvisited \subseteq threads[r][i].st.unvisited
           /\ Cardinality(threads'[r][i].st.unvisited) =
                  Cardinality(threads[r][i].st.unvisited) - 1

\* the walk of _find_next_hop on router r has met no vertex twice, and where
\* it ends it has reached r
WalkReachesSelf(r) ==
    \A i \in CalcFrames(r) :
        threads[r][i].pc = "walk"
        => /\ NoRepeat(Append(threads[r][i].path, WalkCurrent(threads[r][i])))
           /\ WalkCurrent(threads[r][i]) \notin DOMAIN threads[r][i].st.previous
                  => WalkCurrent(threads[r][i]) = r

\* C30: calculate_spf terminates for every LSDB content, cyclic graphs, links
\* to absent origins and zero-cost links included: every iteration of the
\* selection loop takes exactly one vertex out of unvisited, the predecessor
\* walk of _find_next_hop meets no vertex twice and ends at the computing
\* router, and every call in progress returns.
C30_CalculateSpfTerminates ==
    /\ [][FinalizesOne("A")]_vars
    /\ [](WalkReachesSelf("A"))
    /\ (InCall("A") ~> ~InCall("A"))

\* a call has returned on an LSDB with a zero-cost cycle between B and C,
\* having walked back from C over B to A
C30_Witness ==
    /\ last.op = "calculate_spf"
    /\ {"B", "C"} \subseteq DOMAIN lsdb["A"]
    /\ \E i \in DOMAIN lsdb["A"]["B"].links :
          /\ lsdb["A"]["B"].links[i].neighbor_router_id = "C"
          /\ lsdb["A"]["B"].links[i].cost = 0
    /\ \E i \in DOMAIN lsdb["A"]["C"].links :
          /\ lsdb["A"]["C"].links[i].neighbor_router_id = "B"
          /\ lsdb["A"]["C"].links[i].cost = 0
    /\ "C" \in DOMAIN routing_table["A"]
    /\ routing_table["A"]["C"].next_hop = "B"

=============================================================================
